---- MODULE Spec2Model ----
(***************************************************************************)
(* Model of pymux/utils.py: pty_make_controlling_tty, daemonize, the       *)
(* nonblocking context manager and the cached_property descriptor.         *)
(* Every component has its own specification (SpecTty, SpecDaemon, SpecNB, *)
(* SpecCache); the variables of the other components stay at their idle    *)
(* values.                                                                 *)
(***************************************************************************)
EXTENDS Integers, Sequences, FiniteSets, TLC

VARIABLES
    args,       \* daemonize: the stdin/stdout/stderr arguments as passed
    proc,       \* daemonize: per OS process, its position and process state
    written,    \* daemonize: what has been written to sys.stderr, by whom
    tty,        \* pty_make_controlling_tty: the calling process and its position
    flags,      \* nonblocking: the status flags of each descriptor (F_GETFL)
    scope,      \* nonblocking: the fields of each nonblocking object
    entered,    \* nonblocking: per descriptor, the objects entered and not yet exited
    nbhist,     \* nonblocking: what is remembered of the calls so far
    now,        \* cached_property: the clock, time.time()
    src,        \* cached_property: per instance, the state the wrapped function reads
    cache,      \* cached_property: per instance, its _cache attribute
    calls,      \* cached_property: per instance and property, the calls of fget and of del
    last,       \* cached_property: the last access or deletion and its outcome
    wdesc,      \* set_terminal_size: what each descriptor is open on, if open
    winsz,      \* set_terminal_size: the window size the kernel holds per descriptor
    applied,    \* set_terminal_size: the last call and its outcome
    th,         \* cached_property: the callers inside __get__ at the same time
    heap        \* cached_property: the _cache attribute they share

dvars == <<args, proc, written>>

nbvars == <<flags, scope, entered, nbhist>>

cvars == <<now, src, cache, calls, last>>

wvars == <<wdesc, winsz, applied>>

vars == <<args, proc, written, tty, flags, scope, entered, nbhist,
          now, src, cache, calls, last, wdesc, winsz, applied, th, heap>>

tvars == <<th, heap>>

(***************************************************************************)
(* daemonize (src/pymux/utils.py:74-128)                                   *)
(***************************************************************************)

\* Number of process-table slots: the caller, its child and its grandchild.
MaxProcs == 3

Procs == 1..MaxProcs

\* The process that calls daemonize.
Orig == 1

\* An argument left out of the call.
Omitted == "<omitted>"

\* The paths a caller passes for stdin, stdout and stderr.
ArgPaths == {Omitted, "/tmp/in", "/tmp/log2"}

\* `def daemonize(stdin='/dev/null', stdout='/dev/null', stderr='/dev/null')`:
\* a parameter that is not passed takes its default.
Param(a) == IF a = Omitted THEN "/dev/null" ELSE a

\* sys.stdin.fileno(), sys.stdout.fileno(), sys.stderr.fileno()
StdinFileno == 0
StdoutFileno == 1
StderrFileno == 2

\* Descriptor numbers of a process.
MaxFd == 5
Fds == 0..MaxFd

NoFile == [path |-> "", acc |-> {}]

\* The terminal the caller was started from.
Terminal == [path |-> "/dev/pts/0", acc |-> {"read", "write"}]

\* What a Python open() mode asks of the OS.
OpenMode(mode) ==
    CASE mode = "rb"  -> {"read"}
      [] mode = "ab+" -> {"read", "write", "append", "creat"}

\* open(path, mode): the open file description.
OpenFile(path, mode) == [path |-> path, acc |-> OpenMode(mode)]

\* The lowest descriptor number that is free, which open() returns.
LowestFree(tbl) == CHOOSE n \in Fds : tbl[n] = NoFile /\ \A m \in Fds : m < n => tbl[m] # NoFile

HasFree(tbl) == \E n \in Fds : tbl[n] = NoFile

Dup2Swapped(tbl, old, new) == [tbl EXCEPT ![old] = tbl[new]]

\* os.dup2(old, new): new refers to old's open file description.
Dup2(tbl, old, new) == [tbl EXCEPT ![new] = tbl[old]]

\* Closing a set of descriptors (the local file objects going out of scope).
CloseAll(tbl, S) == [n \in Fds |-> IF n \in S THEN NoFile ELSE tbl[n]]

FirstForkParentNone(pid) == FALSE

FirstForkParentFlipped(pid) == pid = 0

\* `if pid > 0:` after the first fork: the branch that waits and returns 0.
FirstForkParent(pid) == pid > 0

SecondForkParentNever(pid) == FALSE

\* `if pid > 0:` after the second fork: the branch that exits.
SecondForkParent(pid) == pid > 0

\* Exit statuses of the two `except OSError` handlers.
Fork1ExitStatus == 1
Fork2ExitStatusOther == Fork1ExitStatus + 1
Fork2ExitStatus == 1

\* sys.exit(0) of the second parent.
SecondParentExitStatus == 0

\* The return values.
Parent == 0
Daemon == 1

NextStmtUmaskLate(label) ==
    CASE label = "chdir"   -> "setsid"
      [] label = "setsid"  -> "fork2"
      [] label = "test2"   -> "umask"
      [] label = "umask"   -> "open_si"
      [] label = "open_si" -> "open_so"
      [] label = "open_so" -> "open_se"
      [] label = "open_se" -> "dup_si"
      [] label = "dup_si"  -> "dup_so"
      [] label = "dup_so"  -> "dup_se"
      [] label = "dup_se"  -> "return1"

NextStmtSetsidLate(label) ==
    CASE label = "chdir"   -> "umask"
      [] label = "umask"   -> "fork2"
      [] label = "setsid"  -> "open_si"
      [] label = "test2"   -> "setsid"
      [] label = "open_si" -> "open_so"
      [] label = "open_so" -> "open_se"
      [] label = "open_se" -> "dup_si"
      [] label = "dup_si"  -> "dup_so"
      [] label = "dup_so"  -> "dup_se"
      [] label = "dup_se"  -> "return1"

\* The statement that follows a statement in the straight-line part of
\* daemonize (lines 98-128).
NextStmt(label) ==
    CASE label = "chdir"   -> "umask"
      [] label = "umask"   -> "setsid"
      [] label = "setsid"  -> "fork2"
      [] label = "test2"   -> "open_si"
      [] label = "open_si" -> "open_so"
      [] label = "open_so" -> "open_se"
      [] label = "open_se" -> "dup_si"
      [] label = "dup_si"  -> "dup_so"
      [] label = "dup_so"  -> "dup_se"
      [] label = "dup_se"  -> "return1"

\* A slot of the process table that holds no process.
AbsentProc ==
    [pc |-> "absent", pid |-> -1, parent |-> 0, cwd |-> "", umask |-> -1,
     sid |-> -1, ctty |-> "", wasLeader |-> FALSE,
     fd |-> [n \in Fds |-> NoFile], si |-> -1, so |-> -1, se |-> -1,
     ret |-> -1, nret |-> 0, status |-> -1, failedStage |-> 0, nfork |-> 0]

\* The calling process on entry to daemonize: started from a terminal, with
\* the three standard descriptors open on it.
CallerProc(leader, dir) ==
    [AbsentProc EXCEPT
        !.pc = "fork1", !.cwd = dir, !.umask = 18,
        !.sid = IF leader THEN Orig ELSE 0, !.ctty = Terminal.path,
        !.wasLeader = leader,
        !.fd = [n \in Fds |-> IF n \in {StdinFileno, StdoutFileno, StderrFileno}
                                THEN Terminal ELSE NoFile]]

\* The descriptors nonblocking objects are made for, the objects, and the
\* status flags a descriptor can carry.
NBDescs == {6, 7}
NBScopes == {"A", "B"}
FlagNames == {"O_NONBLOCK", "O_APPEND"}

\* self.orig_fl before __enter__ has run: the attribute does not exist.
Unset == {"<unset>"}

\* No nonblocking object is in use (the state of the descriptors in the
\* specifications of the other functions).
IdleNB ==
    /\ flags = [d \in NBDescs |-> {}]
    /\ scope = [s \in NBScopes |-> [fd |-> 6, orig_fl |-> Unset]]
    /\ entered = [d \in NBDescs |-> <<>>]
    /\ nbhist = [before |-> [d \in NBDescs |-> {}], paired |-> [d \in NBDescs |-> TRUE],
                 exits |-> 0, byError |-> FALSE,
                 touched |-> [d \in NBDescs |-> FALSE]]

\* The instances that own cached properties, and the cached_property objects
\* of their class, named by the attribute each one is bound to.
Insts == {"i1", "i2"}
CProps == {"forever", "timed"}

\* inst._cache has no entry under a name.
NoEntry == [value |-> -1, at |-> -1]

\* No access has been made yet.
NoAccess ==
    [op |-> "none", inst |-> "", prop |-> "", ret |-> -1, computed |-> FALSE,
     at |-> 0, stored |-> NoEntry]

\* No property has been accessed (the state of the instances in the
\* specifications of the other functions).
IdleCache ==
    /\ now = 0
    /\ src = [i \in Insts |-> 0]
    /\ cache = [i \in Insts |-> [exists |-> FALSE, d |-> [n \in CProps |-> NoEntry]]]
    /\ calls = [i \in Insts |-> [q \in CProps |-> [fget |-> 0, del |-> 0, first |-> -1]]]
    /\ last = NoAccess

\* The descriptors set_terminal_size is called on.
WDescs == {8, 9}

\* No call of set_terminal_size has been made.
NoApply == [fd |-> -1, rows |-> 0, cols |-> 0, result |-> "none"]

\* set_terminal_size is not being called (the state of the descriptors in
\* the specifications of the other functions).
IdleWinsz ==
    /\ wdesc = [d \in WDescs |-> "closed"]
    /\ winsz = [d \in WDescs |-> <<0, 0, 0, 0>>]
    /\ applied = NoApply

\* The callers that are inside __get__ of one property of one instance at
\* the same time, and the dictionaries inst._cache can refer to: dictionary 0
\* is the one an instance already has, dictionary t the one caller t creates.
Threads == {1, 2}
DictIds == {0} \cup Threads

\* inst has no attribute _cache.
NoDict == -1

\* A caller that is not inside __get__.
IdleThread ==
    [pc |-> "idle", now |-> -1, value |-> -1, cache |-> NoDict,
     computed |-> FALSE, ret |-> -1]

\* No caller is inside __get__ (the state of the callers in the
\* specifications of the other functions).
IdleConc ==
    /\ th = [t \in Threads |-> IdleThread]
    /\ heap = [prop |-> "forever", ref |-> NoDict,
               d |-> [k \in DictIds |-> NoEntry], log |-> <<>>]

\* pty_make_controlling_tty is not being called (the state of its process in
\* the specifications of the other functions).
IdleTty ==
    [pc |-> "idle", ctty |-> "", leader |-> FALSE, pgrpLeader |-> FALSE,
     isatty |-> FALSE, fd |-> [n \in Fds |-> NoFile], cur |-> -1,
     child_name |-> "", calls |-> <<>>, probeOpened |-> FALSE,
     reprobeOpened |-> FALSE,
     result |-> "none", exc |-> ""]

InitDaemon ==
    /\ args \in [stdin : ArgPaths, stdout : ArgPaths, stderr : ArgPaths]
    /\ \E leader \in BOOLEAN, dir \in {"/", "/home/user"} :
          proc = [p \in Procs |-> IF p = Orig THEN CallerProc(leader, dir)
                                  ELSE AbsentProc]
    /\ written = {}
    /\ tty = IdleTty
    /\ IdleNB
    /\ IdleCache
    /\ IdleWinsz
    /\ IdleConc

FreeSlot == CHOOSE c \in Procs : proc[c].pc = "absent" /\ \A d \in Procs : d < c => proc[d].pc # "absent"

\* The process os.fork() creates: a copy of the caller in which fork returns 0.
Forked(p, label) ==
    [proc[p] EXCEPT !.pc = label, !.pid = 0, !.parent = p, !.wasLeader = FALSE,
                    !.nfork = 0, !.failedStage = 0]

\* Line 90, `pid = os.fork()`: both processes go on to the test of line 91.
Fork1Ok(p) ==
    /\ proc[p].pc = "fork1"
    /\ \E c \in Procs : proc[c].pc = "absent"
    /\ LET c == FreeSlot IN
       proc' = [proc EXCEPT ![p].pid = c, ![p].pc = "test1", ![p].nfork = @ + 1,
                            ![c] = Forked(p, "test1")]
    /\ UNCHANGED <<tvars, wvars, args, written, tty, nbvars, cvars>>

\* Line 90, os.fork() raises OSError.
Fork1Fail(p) ==
    /\ proc[p].pc = "fork1"
    /\ proc' = [proc EXCEPT ![p].pc = "except1", ![p].nfork = @ + 1,
                            ![p].failedStage = 1]
    /\ UNCHANGED <<tvars, wvars, args, written, tty, nbvars, cvars>>

\* Line 91, `if pid > 0:`.
Test1(p) ==
    /\ proc[p].pc = "test1"
    /\ proc' = [proc EXCEPT ![p].pc = IF FirstForkParent(proc[p].pid)
                                      THEN "waitpid" ELSE "chdir"]
    /\ UNCHANGED <<tvars, wvars, args, written, tty, nbvars, cvars>>

WaitpidNoWait(c) == proc[c].pc # "absent"

\* Line 92, os.waitpid(pid, 0) with options 0 blocks until process c has
\* terminated.
WaitpidDone(c) == proc[c].pc = "exited"

\* Lines 92-93, `os.waitpid(pid, 0); return 0`: waitpid returns once the child
\* has terminated.
WaitpidReturn0(p) ==
    /\ proc[p].pc = "waitpid"
    /\ proc[p].pid \in Procs
    /\ WaitpidDone(proc[p].pid)
    /\ proc' = [proc EXCEPT ![p].pc = "returned", ![p].ret = Parent,
                            ![p].nret = @ + 1]
    /\ UNCHANGED <<tvars, wvars, args, written, tty, nbvars, cvars>>

\* Line 92 is inside the try of line 89: an OSError of os.waitpid (EINTR,
\* ECHILD) is handled by the handler of line 94.
WaitpidError(p) ==
    /\ proc[p].pc = "waitpid"
    /\ proc' = [proc EXCEPT ![p].pc = "except1"]
    /\ UNCHANGED <<tvars, wvars, args, written, tty, nbvars, cvars>>

\* Lines 94-96: report on sys.stderr, sys.exit(1).
Except1(p) ==
    /\ proc[p].pc = "except1"
    /\ written' = written \cup
          {[by |-> p, text |-> "fork #1 failed", to |-> proc[p].fd[StderrFileno].path]}
    /\ proc' = [proc EXCEPT ![p].pc = "exited", ![p].status = Fork1ExitStatus]
    /\ UNCHANGED <<tvars, wvars, args, tty, nbvars, cvars>>

\* Line 99, os.chdir("/").
Chdir(p) ==
    /\ proc[p].pc = "chdir"
    /\ proc' = [proc EXCEPT ![p].pc = NextStmt("chdir"), ![p].cwd = "/"]
    /\ UNCHANGED <<tvars, wvars, args, written, tty, nbvars, cvars>>

\* Line 100, os.umask(0).
Umask(p) ==
    /\ proc[p].pc = "umask"
    /\ proc' = [proc EXCEPT ![p].pc = NextStmt("umask"), ![p].umask = 0]
    /\ UNCHANGED <<tvars, wvars, args, written, tty, nbvars, cvars>>

\* Line 101, os.setsid(): the caller leads a new session that has no
\* controlling terminal.
Setsid(p) ==
    /\ proc[p].pc = "setsid"
    /\ proc' = [proc EXCEPT ![p].pc = NextStmt("setsid"), ![p].sid = p,
                            ![p].ctty = "", ![p].wasLeader = TRUE]
    /\ UNCHANGED <<tvars, wvars, args, written, tty, nbvars, cvars>>

\* Line 105, `pid = os.fork()`.
Fork2Ok(p) ==
    /\ proc[p].pc = "fork2"
    /\ \E c \in Procs : proc[c].pc = "absent"
    /\ LET c == FreeSlot IN
       proc' = [proc EXCEPT ![p].pid = c, ![p].pc = "test2", ![p].nfork = @ + 1,
                            ![c] = Forked(p, "test2")]
    /\ UNCHANGED <<tvars, wvars, args, written, tty, nbvars, cvars>>

\* Line 105, os.fork() raises OSError.
Fork2Fail(p) ==
    /\ proc[p].pc = "fork2"
    /\ proc' = [proc EXCEPT ![p].pc = "except2", ![p].nfork = @ + 1,
                            ![p].failedStage = 2]
    /\ UNCHANGED <<tvars, wvars, args, written, tty, nbvars, cvars>>

\* Lines 106-107, `if pid > 0: sys.exit(0)`. SystemExit is no OSError, so
\* the handler of line 108 lets it pass.
Test2(p) ==
    /\ proc[p].pc = "test2"
    /\ proc' = IF SecondForkParent(proc[p].pid)
               THEN [proc EXCEPT ![p].pc = "exited",
                                 ![p].status = SecondParentExitStatus]
               ELSE [proc EXCEPT ![p].pc = NextStmt("test2")]
    /\ UNCHANGED <<tvars, wvars, args, written, tty, nbvars, cvars>>

\* Lines 108-110: report on sys.stderr, sys.exit(1).
Except2(p) ==
    /\ proc[p].pc = "except2"
    /\ written' = written \cup
          {[by |-> p, text |-> "fork #2 failed", to |-> proc[p].fd[StderrFileno].path]}
    /\ proc' = [proc EXCEPT ![p].pc = "exited", ![p].status = Fork2ExitStatus]
    /\ UNCHANGED <<tvars, wvars, args, tty, nbvars, cvars>>

\* Lines 120-122: open() returns a file on the lowest free descriptor, or
\* raises IOError, which daemonize does not handle.
OpenStream(p, label, path, mode) ==
    /\ proc[p].pc = label
    /\ \/ /\ HasFree(proc[p].fd)
          /\ LET n == LowestFree(proc[p].fd)
                 q == [proc[p] EXCEPT !.pc = NextStmt(label),
                                      !.fd[n] = OpenFile(path, mode)]
             IN proc' = [proc EXCEPT ![p] =
                     CASE label = "open_si" -> [q EXCEPT !.si = n]
                       [] label = "open_so" -> [q EXCEPT !.so = n]
                       [] label = "open_se" -> [q EXCEPT !.se = n]]
       \/ proc' = [proc EXCEPT ![p].pc = "raised"]
    /\ UNCHANGED <<tvars, wvars, args, written, tty, nbvars, cvars>>

\* Line 120, si = open(stdin, 'rb').
OpenSi(p) == OpenStream(p, "open_si", Param(args.stdin), "rb")

\* Line 121, so = open(stdout, 'ab+').
OpenSo(p) == OpenStream(p, "open_so", Param(args.stdout), "ab+")

\* Line 122, se = open(stderr, 'ab+', 0).
OpenSe(p) == OpenStream(p, "open_se", Param(args.stderr), "ab+")

\* Line 123, os.dup2(si.fileno(), sys.stdin.fileno()).
DupSi(p) ==
    /\ proc[p].pc = "dup_si"
    /\ proc' = [proc EXCEPT ![p].pc = NextStmt("dup_si"),
                            ![p].fd = Dup2(@, proc[p].si, StdinFileno)]
    /\ UNCHANGED <<tvars, wvars, args, written, tty, nbvars, cvars>>

\* Line 124, os.dup2(so.fileno(), sys.stdout.fileno()).
DupSo(p) ==
    /\ proc[p].pc = "dup_so"
    /\ proc' = [proc EXCEPT ![p].pc = NextStmt("dup_so"),
                            ![p].fd = Dup2(@, proc[p].so, StdoutFileno)]
    /\ UNCHANGED <<tvars, wvars, args, written, tty, nbvars, cvars>>

\* Line 125, os.dup2(se.fileno(), sys.stderr.fileno()).
DupSe(p) ==
    /\ proc[p].pc = "dup_se"
    /\ proc' = [proc EXCEPT ![p].pc = NextStmt("dup_se"),
                            ![p].fd = Dup2(@, proc[p].se, StderrFileno)]
    /\ UNCHANGED <<tvars, wvars, args, written, tty, nbvars, cvars>>

\* Line 128, `return 1`: the locals si, so and se go out of scope, which
\* closes their descriptors.
Return1(p) ==
    /\ proc[p].pc = "return1"
    /\ proc' = [proc EXCEPT ![p].pc = "returned", ![p].ret = Daemon,
                            ![p].nret = @ + 1,
                            ![p].fd = CloseAll(@, {proc[p].si, proc[p].so, proc[p].se})]
    /\ UNCHANGED <<tvars, wvars, args, written, tty, nbvars, cvars>>

NextDaemon ==
    \E p \in Procs :
        \/ Fork1Ok(p) \/ Fork1Fail(p) \/ Test1(p)
        \/ WaitpidReturn0(p) \/ WaitpidError(p) \/ Except1(p)
        \/ Chdir(p) \/ Umask(p) \/ Setsid(p)
        \/ Fork2Ok(p) \/ Fork2Fail(p) \/ Test2(p) \/ Except2(p)
        \/ OpenSi(p) \/ OpenSo(p) \/ OpenSe(p)
        \/ DupSi(p) \/ DupSo(p) \/ DupSe(p) \/ Return1(p)

SpecDaemon == InitDaemon /\ [][NextDaemon]_vars

(***************************************************************************)
(* pty_make_controlling_tty (src/pymux/utils.py:23-71)                     *)
(***************************************************************************)

\* The device of the process's controlling terminal.
DevTty == "/dev/tty"

\* The terminal the process is attached to when it calls the function, and
\* the slave of the pty that tty_fd is open on.
OldTerminal == "/dev/pts/0"
SlavePty == "/dev/pts/7"

\* The descriptor the caller passes as tty_fd.
TtyFd == 3

\* A bare `except:` handles every exception raised in its try block.
BareExceptCatchesNothing(exc) == FALSE

BareExceptCatches(exc) == TRUE

\* The caller on entry: it holds tty_fd; it does or does not have a
\* controlling terminal; it is or is not a process group leader (os.setsid
\* fails for one); tty_fd is or is not a terminal.
InitTty ==
    /\ \E hasCtty, pgl, isatty, std \in BOOLEAN :
          tty = [IdleTty EXCEPT
                    !.pc = "ttyname",
                    !.ctty = IF hasCtty THEN OldTerminal ELSE "",
                    !.pgrpLeader = pgl,
                    !.isatty = isatty,
                    !.fd = [n \in Fds |->
                              IF n = TtyFd
                              THEN [path |-> IF isatty THEN SlavePty ELSE "/tmp/file",
                                    acc |-> {"read", "write"}]
                              ELSE IF std /\ n < TtyFd THEN [path |-> SlavePty, acc |-> {"read", "write"}]
                              ELSE NoFile],
                    !.result = "running"]
    /\ args = [stdin |-> Omitted, stdout |-> Omitted, stderr |-> Omitted]
    /\ proc = [p \in Procs |-> AbsentProc]
    /\ written = {}
    /\ IdleNB
    /\ IdleCache
    /\ IdleWinsz
    /\ IdleConc

\* The function raises exc to its caller.
Raise(exc) == [tty EXCEPT !.pc = "done", !.result = "raised", !.exc = exc]

\* os.open(path, flags) succeeded: the lowest free descriptor refers to path.
Opened(t, path, acc, call) ==
    [t EXCEPT !.fd[LowestFree(t.fd)] = [path |-> path, acc |-> acc],
              !.cur = LowestFree(t.fd),
              !.calls = Append(@, call)]

ClosedLeaks(t) == [t EXCEPT !.cur = -1]

\* os.close(fd) of the descriptor just opened.
Closed(t) == [t EXCEPT !.fd[t.cur] = NoFile, !.cur = -1]

\* Line 32, child_name = os.ttyname(tty_fd): OSError when tty_fd is no terminal.
Ttyname ==
    /\ tty.pc = "ttyname"
    /\ tty' = IF tty.isatty
              THEN [tty EXCEPT !.pc = "probe", !.child_name = tty.fd[TtyFd].path,
                               !.calls = Append(@, "ttyname")]
              ELSE [Raise("OSError") EXCEPT !.calls = Append(@, "ttyname")]
    /\ UNCHANGED <<tvars, wvars, dvars, nbvars, cvars>>

\* Lines 35-36, os.open("/dev/tty", O_RDWR | O_NOCTTY) succeeds: only a
\* process that has a controlling terminal can open it.
ProbeOpen ==
    /\ tty.pc = "probe"
    /\ tty.ctty # ""
    /\ HasFree(tty.fd)
    /\ tty' = [Opened(tty, DevTty, {"read", "write"}, "probe") EXCEPT
                  !.pc = "probe_close", !.probeOpened = TRUE]
    /\ UNCHANGED <<tvars, wvars, dvars, nbvars, cvars>>

\* Lines 36, 40-42: the open raises OSError and the bare except passes.
ProbeFail ==
    /\ tty.pc = "probe"
    /\ tty' = [tty EXCEPT !.calls = Append(@, "probe"),
                          !.pc = IF BareExceptCatches("OSError") THEN "setsid" ELSE "done",
                          !.result = IF BareExceptCatches("OSError") THEN @ ELSE "raised",
                          !.exc = IF BareExceptCatches("OSError") THEN @ ELSE "OSError"]
    /\ UNCHANGED <<tvars, wvars, dvars, nbvars, cvars>>

\* Lines 37-38, `if fd >= 0: os.close(fd)`.
ProbeClose ==
    /\ tty.pc = "probe_close"
    /\ tty' = [Closed(tty) EXCEPT !.pc = "setsid"]
    /\ UNCHANGED <<tvars, wvars, dvars, nbvars, cvars>>

\* Line 44, os.setsid(): OSError (EPERM) for a process group leader.
\* Otherwise the process leads a new session; POSIX then leaves it without a
\* controlling terminal, and the check of lines 46-53 exists for systems that
\* do not.
SetsidTty ==
    /\ tty.pc = "setsid"
    /\ \/ /\ tty.pgrpLeader
          /\ tty' = [Raise("OSError") EXCEPT !.calls = Append(@, "setsid")]
       \/ /\ ~tty.pgrpLeader
          /\ \E detached \in BOOLEAN :
                tty' = [tty EXCEPT !.pc = "reprobe", !.leader = TRUE,
                                   !.pgrpLeader = TRUE,
                                   !.ctty = IF detached THEN "" ELSE @,
                                   !.calls = Append(@, "setsid")]
    /\ UNCHANGED <<tvars, wvars, dvars, nbvars, cvars>>

\* Lines 48-49, the open of /dev/tty succeeds although setsid was called.
ReprobeOpen ==
    /\ tty.pc = "reprobe"
    /\ tty.ctty # ""
    /\ HasFree(tty.fd)
    /\ tty' = [Opened(tty, DevTty, {"read", "write"}, "reprobe") EXCEPT
                  !.pc = "reprobe_close", !.reprobeOpened = TRUE]
    /\ UNCHANGED <<tvars, wvars, dvars, nbvars, cvars>>

\* Lines 49, 55-57: the open raises OSError and the bare except passes.
ReprobeFail ==
    /\ tty.pc = "reprobe"
    /\ tty' = [tty EXCEPT !.calls = Append(@, "reprobe"),
                          !.pc = IF BareExceptCatches("OSError") THEN "open_slave" ELSE "done",
                          !.result = IF BareExceptCatches("OSError") THEN @ ELSE "raised",
                          !.exc = IF BareExceptCatches("OSError") THEN @ ELSE "OSError"]
    /\ UNCHANGED <<tvars, wvars, dvars, nbvars, cvars>>

\* Lines 50-51, `if fd >= 0: os.close(fd)`.
ReprobeClose ==
    /\ tty.pc = "reprobe_close"
    /\ tty' = [Closed(tty) EXCEPT !.pc = "reprobe_raise"]
    /\ UNCHANGED <<tvars, wvars, dvars, nbvars, cvars>>

\* Lines 52-57: `raise Exception('Failed to disconnect ...')` is raised inside
\* the try block of line 48, whose bare `except:` handles it with `pass`.
ReprobeRaise ==
    /\ tty.pc = "reprobe_raise"
    /\ tty' = IF BareExceptCatches("Failed to disconnect from controlling tty")
              THEN [tty EXCEPT !.pc = "open_slave"]
              ELSE Raise("Failed to disconnect from controlling tty")
    /\ UNCHANGED <<tvars, wvars, dvars, nbvars, cvars>>

\* Line 60, fd = os.open(child_name, os.O_RDWR) succeeds: a session leader
\* without a controlling terminal that opens a terminal without O_NOCTTY
\* acquires it as its controlling terminal.
OpenSlave ==
    /\ tty.pc = "open_slave"
    /\ HasFree(tty.fd)
    /\ tty' = [Opened(tty, tty.child_name, {"read", "write"}, "open_slave") EXCEPT
                  !.pc = "close_slave",
                  !.ctty = IF tty.leader /\ tty.ctty = "" THEN tty.child_name ELSE @]
    /\ UNCHANGED <<tvars, wvars, dvars, nbvars, cvars>>

\* Line 60, os.open raises OSError (os.open never returns a negative number,
\* so line 62 is not reached).
OpenSlaveFail ==
    /\ tty.pc = "open_slave"
    /\ tty' = [Raise("OSError") EXCEPT !.calls = Append(@, "open_slave")]
    /\ UNCHANGED <<tvars, wvars, dvars, nbvars, cvars>>

\* Lines 63-64, os.close(fd).
CloseSlave ==
    /\ tty.pc = "close_slave"
    /\ tty' = [Closed(tty) EXCEPT !.pc = "open_final"]
    /\ UNCHANGED <<tvars, wvars, dvars, nbvars, cvars>>

\* Line 67, fd = os.open("/dev/tty", os.O_WRONLY) succeeds.
OpenFinal ==
    /\ tty.pc = "open_final"
    /\ tty.ctty # ""
    /\ HasFree(tty.fd)
    /\ tty' = [Opened(tty, DevTty, {"write"}, "open_final") EXCEPT !.pc = "close_final"]
    /\ UNCHANGED <<tvars, wvars, dvars, nbvars, cvars>>

\* Line 67, os.open raises OSError.
OpenFinalFail ==
    /\ tty.pc = "open_final"
    /\ tty' = [Raise("OSError") EXCEPT !.calls = Append(@, "open_final")]
    /\ UNCHANGED <<tvars, wvars, dvars, nbvars, cvars>>

\* Lines 70-71, os.close(fd), and the function returns.
CloseFinal ==
    /\ tty.pc = "close_final"
    /\ tty' = [Closed(tty) EXCEPT !.pc = "done", !.result = "returned"]
    /\ UNCHANGED <<tvars, wvars, dvars, nbvars, cvars>>

NextTty ==
    \/ Ttyname
    \/ ProbeOpen \/ ProbeFail \/ ProbeClose
    \/ SetsidTty
    \/ ReprobeOpen \/ ReprobeFail \/ ReprobeClose \/ ReprobeRaise
    \/ OpenSlave \/ OpenSlaveFail \/ CloseSlave
    \/ OpenFinal \/ OpenFinalFail \/ CloseFinal

SpecTty == InitTty /\ [][NextTty]_vars

\* The state of the PtySession the function is called for: it becomes
\* ControllingTtyEstablished when the function returns normally.
SessionState ==
    IF tty.result = "returned" THEN "ControllingTtyEstablished" ELSE "Created"

Called(call) == \E i \in 1..Len(tty.calls) : tty.calls[i] = call

\* C1: when the open of /dev/tty after setsid succeeds, the function raises
\* the detachment failure to its caller, neither the slave pty nor the final
\* /dev/tty is opened, and the session stays Created.
C1_Claim ==
    tty.reprobeOpened =>
        /\ ~Called("open_slave")
        /\ ~Called("open_final")
        /\ tty.pc \in {"reprobe_close", "reprobe_raise", "done"}
        /\ tty.pc = "done" =>
              /\ tty.result = "raised"
              /\ tty.exc = "Failed to disconnect from controlling tty"
        /\ SessionState = "Created"

(***************************************************************************)
(* nonblocking (src/pymux/utils.py:150-162)                                *)
(***************************************************************************)

\* How many objects may be entered on one descriptor at a time.
MaxDepth == 2

\* How many calls of __exit__ a behaviour makes.
MaxExits == 3

\* `flags | bit`
BitOr(fl, bit) == fl \cup {bit}

EnterFlagsKept(orig_fl) == orig_fl

\* `self.orig_fl | os.O_NONBLOCK`, the flags __enter__ sets.
EnterFlags(orig_fl) == BitOr(orig_fl, "O_NONBLOCK")

ExitFlagsCleared(orig_fl, cur) == cur \ {"O_NONBLOCK"}

\* The flags __exit__ sets: self.orig_fl, whatever the flags are now.
ExitFlags(orig_fl, cur) == orig_fl

\* `nonblocking(fd)` has been called for each object (line 155), the objects
\* have not been entered, and each descriptor has some flags.
InitNB ==
    /\ flags \in [NBDescs -> SUBSET FlagNames]
    /\ scope \in [NBScopes -> [fd : NBDescs, orig_fl : {Unset}]]
    /\ entered = [d \in NBDescs |-> <<>>]
    /\ nbhist = [before |-> flags, paired |-> [d \in NBDescs |-> TRUE],
                 exits |-> 0, byError |-> FALSE,
                 touched |-> [d \in NBDescs |-> FALSE]]
    /\ args = [stdin |-> Omitted, stdout |-> Omitted, stderr |-> Omitted]
    /\ proc = [p \in Procs |-> AbsentProc]
    /\ written = {}
    /\ tty = IdleTty
    /\ IdleCache
    /\ IdleWinsz
    /\ IdleConc

\* The number of objects entered and not yet exited.
EnteredTotal == Len(entered[6]) + Len(entered[7])

InSeq(x, seq) == \E i \in 1..Len(seq) : seq[i] = x

\* seq without its last occurrence of x.
RemoveLast(seq, x) ==
    LET i == CHOOSE k \in 1..Len(seq) :
                 seq[k] = x /\ \A j \in (k + 1)..Len(seq) : seq[j] # x
    IN SubSeq(seq, 1, i - 1) \o SubSeq(seq, i + 1, Len(seq))

\* Lines 157-159, __enter__: read the flags, keep them in self.orig_fl, set
\* them with O_NONBLOCK added. The calls on a descriptor stop being properly
\* nested pairs when an object is entered that is already entered.
Enter(s) ==
    LET d == scope[s].fd IN
    /\ Len(entered[d]) < MaxDepth
    /\ nbhist.exits + EnteredTotal < MaxExits
    /\ scope' = [scope EXCEPT ![s].orig_fl = flags[d]]
    /\ flags' = [flags EXCEPT ![d] = EnterFlags(flags[d])]
    /\ entered' = [entered EXCEPT ![d] = Append(@, s)]
    /\ nbhist' = [nbhist EXCEPT !.paired[d] = @ /\ ~InSeq(s, entered[d])]
    /\ UNCHANGED <<tvars, wvars, dvars, tty, cvars>>

\* Lines 161-162, __exit__(*args): set the flags to self.orig_fl, with or
\* without an exception in args; it returns None, so the exception goes on.
\* The calls stop being properly nested pairs when the object exited is not
\* the one entered last.
Exit(s, error) ==
    LET d == scope[s].fd IN
    /\ InSeq(s, entered[d])
    /\ flags' = [flags EXCEPT ![d] = ExitFlags(scope[s].orig_fl, flags[d])]
    /\ entered' = [entered EXCEPT ![d] = RemoveLast(@, s)]
    /\ nbhist' = [nbhist EXCEPT
                     !.paired[d] = @ /\ entered[d][Len(entered[d])] = s,
                     !.exits = @ + 1,
                     !.byError = @ \/ error]
    /\ UNCHANGED <<tvars, wvars, dvars, tty, cvars, scope>>

\* The body of a `with` block changes a flag of the descriptor.
BodySetFlag(d, f) ==
    /\ entered[d] # <<>>
    /\ flags' = [flags EXCEPT ![d] = IF f \in @ THEN @ \ {f} ELSE @ \cup {f}]
    /\ nbhist' = [nbhist EXCEPT !.touched[d] = TRUE]
    /\ UNCHANGED <<tvars, wvars, dvars, tty, cvars, scope, entered>>

NextNB ==
    \/ \E s \in NBScopes : Enter(s)
    \/ \E s \in NBScopes, error \in BOOLEAN : Exit(s, error)
    \/ \E d \in NBDescs, f \in FlagNames : BodySetFlag(d, f)

SpecNB == InitNB /\ [][NextNB]_vars

\* C7: after any sequence of properly nested __enter__/__exit__ pairs on a
\* descriptor, releases by an exception included, once the last object is
\* exited the descriptor's flags are those it had just before the first
\* __enter__.
C7_FlagsRestored ==
    \A d \in NBDescs :
        (nbhist.paired[d] /\ entered[d] = <<>>) => flags[d] = nbhist.before[d]

C7_Witness ==
    \E d \in NBDescs :
        /\ nbhist.paired[d] /\ nbhist.exits >= 2 /\ entered[d] = <<>>
        /\ nbhist.byError
        /\ scope["A"].fd = d /\ scope["A"].orig_fl # Unset
        /\ scope["B"].fd = d /\ scope["B"].orig_fl # Unset
        /\ "O_NONBLOCK" \in nbhist.before[d]
        /\ flags[d] = nbhist.before[d]

\* Objects a and b of descriptor d were used in overlapping, not nested,
\* `with` blocks and nothing else was done: both have been entered, there
\* were two exits, after which none is entered, and the exits did not come in
\* the reverse order of the entries. What is left is a entered, b entered,
\* a exited, b exited, with a the object that read the flags first.
Overlapped(a, b, d) ==
    /\ a # b
    /\ scope[a].fd = d /\ scope[b].fd = d
    /\ scope[a].orig_fl # Unset /\ scope[b].orig_fl # Unset
    /\ nbhist.exits = 2
    /\ entered[d] = <<>>
    /\ ~nbhist.paired[d]
    /\ ~nbhist.touched[d]
    /\ scope[a].orig_fl = nbhist.before[d]

\* C17: when two objects of one descriptor are entered one after the other
\* and exited in the same order, and no block body changes the flags, the
\* second one restores the flags it read while the first one was entered, so
\* that after both exits the descriptor has O_NONBLOCK set whatever its flags
\* were before the first __enter__.
C17_OverlapLeavesNonblock ==
    \A a \in NBScopes, b \in NBScopes, d \in NBDescs :
        Overlapped(a, b, d) =>
            /\ scope[b].orig_fl = BitOr(nbhist.before[d], "O_NONBLOCK")
            /\ flags[d] = BitOr(nbhist.before[d], "O_NONBLOCK")
            /\ flags[d] = scope[b].orig_fl

\* After both exits the flags differ from those before the first __enter__.
C17_Witness ==
    \E d \in NBDescs :
        /\ Overlapped("A", "B", d)
        /\ "O_NONBLOCK" \notin nbhist.before[d]
        /\ "O_NONBLOCK" \in flags[d]
        /\ flags[d] # nbhist.before[d]

(***************************************************************************)
(* cached_property (src/pymux/utils.py:174-223)                            *)
(***************************************************************************)

\* The clock runs from 0 to MaxTime.
MaxTime == 2

\* The values the state a wrapped function reads can take.
SrcVals == {0, 1}

\* How many calls of the wrapped functions a behaviour makes (a deletion
\* needs an entry, so that there are no more deletions than calls).
MaxCalls == 2

\* The ttl of the property "timed"; the ttl of "forever" is 0.
TimedTtl == 1

\* self.ttl of the cached_property object (line 201).
Ttl(q) == IF q = "forever" THEN 0 ELSE TimedTtl

NameShared(q) == "forever"

\* self.__name__ = fget.__name__ (line 206), the key into inst._cache: the
\* decorator binds the object to the attribute named like the function.
Name(q) == q

\* self.fget(inst): the wrapped function computes its value from the state
\* of the instance.
Fget(q, i) == IF q = "forever" THEN src[i] ELSE 10 + src[i]

ExpiredNoZeroTest(ttl, t, last_update) == t - last_update > ttl

ExpiredLate(ttl, t, last_update) == ttl > 0 /\ t - last_update > ttl + 1

ExpiredAtTtl(ttl, t, last_update) == ttl > 0 /\ t - last_update >= ttl

\* Line 214, `self.ttl > 0 and now - last_update > self.ttl`.
Expired(ttl, t, last_update) == ttl > 0 /\ t - last_update > ttl

\* Instances without a _cache attribute; nothing has been accessed.
InitCache ==
    /\ now = 0
    /\ src \in [Insts -> SrcVals]
    /\ cache = [i \in Insts |-> [exists |-> FALSE, d |-> [n \in CProps |-> NoEntry]]]
    /\ calls = [i \in Insts |-> [q \in CProps |-> [fget |-> 0, del |-> 0, first |-> -1]]]
    /\ last = NoAccess
    /\ args = [stdin |-> Omitted, stdout |-> Omitted, stderr |-> Omitted]
    /\ proc = [p \in Procs |-> AbsentProc]
    /\ written = {}
    /\ tty = IdleTty
    /\ IdleNB
    /\ IdleWinsz
    /\ IdleConc

RECURSIVE SumOver(_, _)
SumOver(S, f) ==
    IF S = {} THEN 0
    ELSE LET x == CHOOSE y \in S : TRUE IN f[x] + SumOver(S \ {x}, f)

Slots == Insts \X CProps

TotalCalls == SumOver(Slots, [x \in Slots |-> calls[x[1]][x[2]].fget])

RecomputeKeepsForever(i, q) ==
    \/ ~cache[i].exists
    \/ Ttl(q) > 0 /\ cache[i].d[Name(q)] = NoEntry
    \/ Expired(Ttl(q), now, cache[i].d[Name(q)].at)

\* Lines 213-216: the lookup raises (no _cache attribute, no entry under the
\* name, or the entry has expired), so that the value is computed again.
Recompute(i, q) ==
    \/ ~cache[i].exists
    \/ cache[i].d[Name(q)] = NoEntry
    \/ Expired(Ttl(q), now, cache[i].d[Name(q)].at)

\* Lines 210-223, __get__(inst, owner).
Get(i, q) ==
    LET n == Name(q)
        e == cache[i].d[n]
        v == Fget(q, i)
    IN /\ Recompute(i, q) => TotalCalls < MaxCalls
       /\ cache' = IF Recompute(i, q)
                   THEN [cache EXCEPT ![i].exists = TRUE,
                                      ![i].d[n] = [value |-> v, at |-> now]]
                   ELSE cache
       /\ calls' = IF Recompute(i, q)
                   THEN [calls EXCEPT ![i][q].fget = @ + 1,
                                      ![i][q].first = IF @ = -1 THEN v ELSE @]
                   ELSE calls
       /\ last' = [op |-> "get", inst |-> i, prop |-> q,
                   ret |-> IF Recompute(i, q) THEN v ELSE e.value,
                   computed |-> Recompute(i, q),
                   at |-> now,
                   stored |-> IF cache[i].exists THEN e ELSE NoEntry]
       /\ UNCHANGED <<tvars, wvars, dvars, tty, nbvars, now, src>>

\* Lines 197-198, `del instance._cache[<property name>]`, for an entry that
\* is there.
Del(i, q) ==
    /\ cache[i].exists
    /\ cache[i].d[Name(q)] # NoEntry
    /\ cache' = [cache EXCEPT ![i].d[Name(q)] = NoEntry]
    /\ calls' = [calls EXCEPT ![i][q].del = @ + 1]
    /\ last' = [NoAccess EXCEPT !.op = "del", !.inst = i, !.prop = q, !.at = now]
    /\ UNCHANGED <<tvars, wvars, dvars, tty, nbvars, now, src>>

\* Time passes.
Tick ==
    /\ now < MaxTime
    /\ now' = now + 1
    /\ UNCHANGED <<tvars, wvars, dvars, tty, nbvars, src, cache, calls, last>>

\* The state the wrapped function reads changes.
Mutate(i) ==
    /\ \E v \in SrcVals : v # src[i] /\ src' = [src EXCEPT ![i] = v]
    /\ UNCHANGED <<tvars, wvars, dvars, tty, nbvars, now, cache, calls, last>>

NextCache ==
    \/ \E i \in Insts, q \in CProps : Get(i, q)
    \/ \E i \in Insts, q \in CProps : Del(i, q)
    \/ Tick
    \/ \E i \in Insts : Mutate(i)

SpecCache == InitCache /\ [][NextCache]_vars

\* The last access found an entry stored; the time elapsed since the
\* timestamp of that entry.
LastHadEntry == last.stored # NoEntry

LastElapsed == last.at - last.stored.at

\* C8: with ttl = 0 and no deletion of the entry, however much time passes
\* and however the state the function reads changes, every access returns the
\* value computed at the first access and the function is called once.
C8_TtlZeroComputesOnce ==
    \A i \in Insts, q \in CProps :
        (Ttl(q) = 0 /\ calls[i][q].del = 0) =>
            /\ calls[i][q].fget <= 1
            /\ (last.op = "get" /\ last.inst = i /\ last.prop = q) =>
                  /\ calls[i][q].fget = 1
                  /\ last.ret = calls[i][q].first

C8_Witness ==
    /\ last.op = "get" /\ last.prop = "forever" /\ ~last.computed
    /\ Ttl(last.prop) = 0
    /\ LastHadEntry /\ LastElapsed >= 2
    /\ calls[last.inst]["forever"].del = 0
    /\ Fget("forever", last.inst) # last.ret

\* C9: with ttl = T > 0 an access computes again and overwrites the stored
\* (value, timestamp) exactly when nothing is stored or more than T has
\* elapsed since the stored timestamp; otherwise it returns the stored value
\* and leaves the entry as it is.
C9_RecomputeIffExpired ==
    (last.op = "get" /\ Ttl(last.prop) > 0) =>
        /\ last.computed <=> (~LastHadEntry \/ LastElapsed > Ttl(last.prop))
        /\ ~last.computed =>
              /\ last.ret = last.stored.value
              /\ cache[last.inst].d[last.prop] = last.stored
        /\ last.computed =>
              /\ cache[last.inst].d[last.prop] = [value |-> last.ret, at |-> last.at]

C9_Witness ==
    /\ last.op = "get" /\ Ttl(last.prop) > 0
    /\ LastHadEntry /\ LastElapsed = Ttl(last.prop) /\ ~last.computed
    /\ calls[last.inst][last.prop].fget >= 2

\* C10: a step changes the stored entry of an attribute of an instance only
\* if it is an access to, or a deletion of, that attribute of that instance:
\* the entries of the other instance and of the other attribute stay as
\* they are.
C10_EntriesIndependent ==
    [][\A i \in Insts, n \in CProps :
          cache'[i].d[n] # cache[i].d[n] =>
              (last'.op \in {"get", "del"} /\ last'.inst = i /\ last'.prop = n)]_vars

C10_Witness ==
    /\ last.op = "del" /\ last.inst = "i1" /\ last.prop = "timed"
    /\ cache["i1"].d["timed"] = NoEntry
    /\ cache["i2"].d["timed"] # NoEntry
    /\ cache["i2"].d["timed"].at < now

\* C11: after `del inst._cache[name]` the next access to that attribute of
\* that instance calls the wrapped function and stores (value, now), whatever
\* the ttl, 0 included; the deletion and that access leave the entries of the
\* other attributes of the instance as they are.
C11_InvalidationRecomputes ==
    [][\A i \in Insts, n \in CProps :
          /\ (/\ cache[i].d[n] = NoEntry /\ calls[i][n].del > 0
              /\ last' # last
              /\ last'.op = "get" /\ last'.inst = i /\ last'.prop = n) =>
                 /\ last'.computed
                 /\ last'.ret = Fget(n, i)
                 /\ cache'[i].d[n] = [value |-> Fget(n, i), at |-> now]
                 /\ calls'[i][n].fget = calls[i][n].fget + 1
                 /\ \A m \in CProps \ {n} : cache'[i].d[m] = cache[i].d[m]
          /\ calls'[i][n].del # calls[i][n].del =>
                 /\ cache'[i].d[n] = NoEntry
                 /\ \A m \in CProps \ {n} : cache'[i].d[m] = cache[i].d[m]]_vars

C11_Witness ==
    /\ last.op = "get" /\ last.prop = "forever" /\ last.computed
    /\ Ttl(last.prop) = 0
    /\ calls[last.inst]["forever"].del = 1
    /\ calls[last.inst]["forever"].fget = 2
    /\ cache[last.inst].d["forever"].at = now /\ now > 0
    /\ cache[last.inst].d["forever"].value # calls[last.inst]["forever"].first

\* C20: an access to a property with ttl > 0 returns the value of the entry
\* the cache then holds, whose timestamp is at most ttl before the time of
\* the access and never after it; a timestamp stored for an attribute is the
\* time of the access that stored it and is never earlier than the one it
\* replaces.
C20_FreshWithinTtl ==
    [][/\ (last'.op = "get" /\ Ttl(last'.prop) > 0) =>
             LET e == cache'[last'.inst].d[Name(last'.prop)] IN
                /\ e # NoEntry
                /\ e.value = last'.ret
                /\ e.at <= last'.at
                /\ last'.at - e.at <= Ttl(last'.prop)
       /\ now' >= now
       /\ \A i \in Insts, q \in CProps :
             LET old == cache[i].d[Name(q)]
                 new == cache'[i].d[Name(q)]
             IN (Ttl(q) > 0 /\ new # NoEntry) =>
                   /\ new.at >= old.at
                   /\ new.at <= now'
                   /\ new # old => new.at = now]_vars

\* An access returned a stored value exactly ttl after it was stored.
C20_Witness ==
    /\ last.op = "get"
    /\ Ttl(last.prop) > 0
    /\ ~last.computed
    /\ last.ret = cache[last.inst].d[Name(last.prop)].value
    /\ last.at - cache[last.inst].d[Name(last.prop)].at = Ttl(last.prop)

\* The system calls of pty_make_controlling_tty in the order of its text:
\* lines 32, 36, 44, 49, 60 and 67.
StepOrder == <<"ttyname", "probe", "setsid", "reprobe", "open_slave", "open_final">>

\* s is an initial part of t.
IsPrefix(s, t) == Len(s) <= Len(t) /\ s = SubSeq(t, 1, Len(s))

\* C13: the calls made are an initial part of the fixed order (probe, setsid,
\* re-probe, open and close of the slave read-write, open of /dev/tty
\* write-only), each made at most once; a failed first probe raises nothing
\* and the function goes on to setsid; the function returns only from the
\* close of a successful write-only open of /dev/tty, with every step made;
\* and a failed final open is raised to the caller.
C13_StepOrder ==
    [][/\ IsPrefix(tty'.calls, StepOrder)
       /\ IsPrefix(tty.calls, tty'.calls)
       /\ Len(tty'.calls) <= Len(tty.calls) + 1
       /\ tty.pc = "probe" =>
             /\ tty'.result = "running"
             /\ tty'.pc = IF tty'.probeOpened THEN "probe_close" ELSE "setsid"
       /\ tty.pc = "probe_close" => tty'.pc = "setsid" /\ tty'.result = "running"
       /\ (tty.pc = "close_slave" /\ tty'.pc = "open_final") =>
             /\ tty.fd[tty.cur] = [path |-> tty.child_name, acc |-> {"read", "write"}]
             /\ tty'.fd[tty.cur] = NoFile
       /\ (tty'.result = "returned" /\ tty.result # "returned") =>
             /\ tty.pc = "close_final"
             /\ tty.cur # -1
             /\ tty.fd[tty.cur] = [path |-> DevTty, acc |-> {"write"}]
             /\ tty'.calls = StepOrder
       /\ (tty.pc = "open_final" /\ tty'.pc # "close_final") =>
             /\ tty'.result = "raised"
             /\ tty'.exc = "OSError"
             /\ tty'.pc = "done"]_vars

\* The first probe failed, the function went on and returned.
C13_Witness ==
    /\ tty.result = "returned"
    /\ ~tty.probeOpened
    /\ tty.calls = StepOrder

\* The descriptor table of the process apart from the descriptor the
\* function holds in its local `fd`.
CallerFds(t) == [n \in Fds |-> IF n = t.cur THEN NoFile ELSE t.fd[n]]

\* C18: the function changes the descriptor table only at the descriptor
\* it has just opened, which was free before and is never tty_fd, and it
\* holds no open descriptor when it has returned or raised: every descriptor
\* it opened is closed again and the caller's descriptors, tty_fd among
\* them, are as they were.
C18_DescriptorsClosed ==
    [][/\ CallerFds(tty') = CallerFds(tty)
       /\ tty'.fd[TtyFd] = tty.fd[TtyFd]
       /\ tty'.fd[TtyFd] # NoFile
       /\ tty'.cur # TtyFd
       /\ (tty'.cur # -1 /\ tty'.cur # tty.cur) =>
             /\ tty.cur = -1
             /\ tty.fd[tty'.cur] = NoFile
             /\ tty'.fd[tty'.cur] # NoFile
       /\ tty'.pc = "done" => tty'.cur = -1 /\ tty'.fd = CallerFds(tty)]_vars

\* The function opened and closed /dev/tty and then raised, with no
\* descriptor left beyond those of the caller.
C18_Witness ==
    /\ tty.pc = "done"
    /\ tty.result = "raised"
    /\ tty.probeOpened
    /\ tty.cur = -1
    /\ tty.fd[TtyFd] # NoFile
    /\ \A n \in Fds : n > TtyFd => tty.fd[n] = NoFile

(***************************************************************************)
(* cached_property.__get__ entered by two callers at once                  *)
(* (src/pymux/utils.py:210-223)                                            *)
(***************************************************************************)

\* The instance whose property the callers access.
ConcInst == "i1"

RetValFromCache(t) == heap.d[heap.ref].value

\* Line 223, `return value`: the local the caller computed or looked up.
RetVal(t) == th[t].value

\* Both callers have entered __get__(inst, owner) for the property heap.prop
\* of one instance, which has no entry for it; the instance may have a
\* _cache dictionary already (made for another property) or none.
InitConc ==
    /\ th = [t \in Threads |-> [IdleThread EXCEPT !.pc = "time"]]
    /\ \E q \in CProps, ref \in {NoDict, 0} :
          heap = [prop |-> q, ref |-> ref, d |-> [k \in DictIds |-> NoEntry],
                  log |-> <<>>]
    /\ now = 0
    /\ src \in [Insts -> SrcVals]
    /\ cache = [i \in Insts |-> [exists |-> FALSE, d |-> [n \in CProps |-> NoEntry]]]
    /\ calls = [i \in Insts |-> [q \in CProps |-> [fget |-> 0, del |-> 0, first |-> -1]]]
    /\ last = NoAccess
    /\ args = [stdin |-> Omitted, stdout |-> Omitted, stderr |-> Omitted]
    /\ proc = [p \in Procs |-> AbsentProc]
    /\ written = {}
    /\ tty = IdleTty
    /\ IdleNB
    /\ IdleWinsz

\* What a step of a caller leaves alone.
ConcFrame == UNCHANGED <<wvars, dvars, tty, nbvars, cvars>>

\* Line 211, now = time.time().
ReadTime(t) ==
    /\ th[t].pc = "time"
    /\ th' = [th EXCEPT ![t].pc = "load", ![t].now = now]
    /\ UNCHANGED heap
    /\ ConcFrame

\* Line 213, the attribute access of `inst._cache[self.__name__]`:
\* AttributeError when the instance has no _cache.
LoadCache(t) ==
    /\ th[t].pc = "load"
    /\ th' = IF heap.ref = NoDict
             THEN [th EXCEPT ![t].pc = "fget"]
             ELSE [th EXCEPT ![t].pc = "subscr", ![t].cache = heap.ref]
    /\ UNCHANGED heap
    /\ ConcFrame

\* Lines 213-216, the subscription of the dictionary just loaded (KeyError
\* when it has no entry under the name) and the test of the ttl.
Subscr(t) ==
    /\ th[t].pc = "subscr"
    /\ LET e == heap.d[th[t].cache] IN
       th' = IF e = NoEntry \/ Expired(Ttl(heap.prop), th[t].now, e.at)
             THEN [th EXCEPT ![t].pc = "fget", ![t].cache = NoDict]
             ELSE [th EXCEPT ![t].pc = "return", ![t].cache = NoDict,
                             ![t].value = e.value]
    /\ UNCHANGED heap
    /\ ConcFrame

\* Line 217, value = self.fget(inst).
CallFget(t) ==
    /\ th[t].pc = "fget"
    /\ th' = [th EXCEPT ![t].pc = "getcache", ![t].computed = TRUE,
                        ![t].value = Fget(heap.prop, ConcInst)]
    /\ UNCHANGED heap
    /\ ConcFrame

\* Lines 218-220, `cache = inst._cache`, AttributeError when there is none.
GetCache(t) ==
    /\ th[t].pc = "getcache"
    /\ th' = IF heap.ref = NoDict
             THEN [th EXCEPT ![t].pc = "newcache"]
             ELSE [th EXCEPT ![t].pc = "store", ![t].cache = heap.ref]
    /\ UNCHANGED heap
    /\ ConcFrame

\* Line 221, `cache = inst._cache = {}`: a new, empty dictionary becomes the
\* instance's _cache, whatever _cache has become since line 219.
NewCache(t) ==
    /\ th[t].pc = "newcache"
    /\ th' = [th EXCEPT ![t].pc = "store", ![t].cache = t]
    /\ heap' = [heap EXCEPT !.ref = t]
    /\ ConcFrame

\* Line 222, cache[self.__name__] = (value, now), into the dictionary the
\* local `cache` refers to.
Store(t) ==
    /\ th[t].pc = "store"
    /\ th' = [th EXCEPT ![t].pc = "return"]
    /\ heap' = [heap EXCEPT !.d[th[t].cache] = [value |-> th[t].value, at |-> th[t].now],
                            !.log = Append(@, [by |-> t, into |-> th[t].cache])]
    /\ ConcFrame

\* Line 223, return value.
Return(t) ==
    /\ th[t].pc = "return"
    /\ th' = [th EXCEPT ![t].pc = "done", ![t].ret = RetVal(t)]
    /\ UNCHANGED heap
    /\ ConcFrame

NextConc ==
    \/ \E t \in Threads : ReadTime(t)
    \/ \E t \in Threads : LoadCache(t)
    \/ \E t \in Threads : Subscr(t)
    \/ \E t \in Threads : CallFget(t)
    \/ \E t \in Threads : GetCache(t)
    \/ \E t \in Threads : NewCache(t)
    \/ \E t \in Threads : Store(t)
    \/ \E t \in Threads : Return(t)
    \/ Tick
    \/ Mutate(ConcInst)

SpecConc == InitConc /\ [][NextConc]_vars

\* The entry caller t stores.
EntryOf(t) == [value |-> th[t].value, at |-> th[t].now]

\* The stores of line 222 that went into dictionary k, in their order.
StoresInto(k) == SelectSeq(heap.log, LAMBDA w : w.into = k)

\* Both callers have returned, and both found no entry and called fget.
BothComputed == \A t \in Threads : th[t].pc = "done" /\ th[t].computed

\* C16 as claimed: after two concurrent first accesses each caller has
\* returned the value it computed, and the instance's cache holds the entry
\* that was stored last.
C16_Original ==
    BothComputed =>
        /\ \A t \in Threads : th[t].ret = th[t].value
        /\ heap.ref # NoDict
        /\ heap.d[heap.ref] # NoEntry
        /\ heap.d[heap.ref] = EntryOf(heap.log[Len(heap.log)].by)

\* C16 amended: each caller has returned the value it computed, and the
\* instance's cache holds an entry one of the callers stored: the one stored
\* last into the dictionary that is the instance's _cache, which is the one
\* stored last of all whenever the instance had a _cache before the accesses.
C16_Amended ==
    BothComputed =>
        /\ \A t \in Threads : th[t].ret = th[t].value
        /\ heap.ref # NoDict
        /\ heap.d[heap.ref] # NoEntry
        /\ StoresInto(heap.ref) # <<>>
        /\ LET w == StoresInto(heap.ref) IN heap.d[heap.ref] = EntryOf(w[Len(w)].by)
        /\ heap.ref = 0 => heap.d[heap.ref] = EntryOf(heap.log[Len(heap.log)].by)

\* Both callers made a dictionary; the one that stored last stored into the
\* dictionary that is no longer the instance's _cache.
C16_Witness ==
    /\ BothComputed
    /\ heap.ref \in Threads
    /\ heap.log[Len(heap.log)].by # heap.ref
    /\ heap.d[heap.ref] = EntryOf(heap.ref)
    /\ EntryOf(1) # EntryOf(2)

(***************************************************************************)
(* set_terminal_size (src/pymux/utils.py:131-147)                          *)
(***************************************************************************)

\* The range of typecode 'h' of array.array, a signed 16-bit integer.
ShortMin == -32768
ShortMax == 32767

\* The number of values of an unsigned 16-bit field of struct winsize.
UShortCount == 65536

\* The rows and cols a caller passes.
DimVals == {0, 24, 80, 32768, -1}

\* array.array('h', [...]) accepts a value: it raises OverflowError otherwise.
FitsShort(v) == v >= ShortMin /\ v <= ShortMax

\* The unsigned 16-bit value the kernel reads from the two bytes array 'h'
\* stores for v.
AsUnsignedShort(v) == v % UShortCount

\* Line 144, buf = array.array(str('h'), [rows, cols, 0, 0]), as the kernel
\* reads it: ws_row, ws_col, ws_xpixel, ws_ypixel.
Buf(rows, cols) ==
    <<AsUnsignedShort(rows), AsUnsignedShort(cols), AsUnsignedShort(0), AsUnsignedShort(0)>>

\* Each descriptor is a pty, a regular file or closed; a pty has some window
\* size.
InitWinsz ==
    /\ wdesc \in [WDescs -> {"pty", "file", "closed"}]
    /\ winsz \in [WDescs -> {<<24, 80, 640, 480>>, <<0, 0, 0, 0>>}]
    /\ \A d \in WDescs : wdesc[d] # "pty" => winsz[d] = <<0, 0, 0, 0>>
    /\ applied = NoApply
    /\ args = [stdin |-> Omitted, stdout |-> Omitted, stderr |-> Omitted]
    /\ proc = [p \in Procs |-> AbsentProc]
    /\ written = {}
    /\ tty = IdleTty
    /\ IdleNB
    /\ IdleCache
    /\ IdleConc

\* Lines 144-147, set_terminal_size(stdout_fileno, rows, cols): the array is
\* built first (OverflowError for a value that is no signed short), then
\* fcntl.ioctl(fd, TIOCSWINSZ, buf) raises IOError for a closed descriptor
\* (EBADF) or one that is no terminal (ENOTTY), and otherwise sets the size.
SetTerminalSize(d, rows, cols) ==
    LET result == IF ~(FitsShort(rows) /\ FitsShort(cols)) THEN "OverflowError"
                  ELSE IF wdesc[d] # "pty" THEN "IOError"
                  ELSE "ok"
    IN /\ winsz' = IF result = "ok" THEN [winsz EXCEPT ![d] = Buf(rows, cols)]
                   ELSE winsz
       /\ applied' = [fd |-> d, rows |-> rows, cols |-> cols, result |-> result]
       /\ UNCHANGED <<tvars, dvars, tty, nbvars, cvars, wdesc>>

\* The owner of a descriptor closes it.
CloseDesc(d) ==
    /\ wdesc[d] # "closed"
    /\ wdesc' = [wdesc EXCEPT ![d] = "closed"]
    /\ UNCHANGED <<tvars, dvars, tty, nbvars, cvars, winsz, applied>>

NextWinsz ==
    \/ \E d \in WDescs, rows \in DimVals, cols \in DimVals : SetTerminalSize(d, rows, cols)
    \/ \E d \in WDescs : CloseDesc(d)

SpecWinsz == InitWinsz /\ [][NextWinsz]_vars

\* C12: a call on an open pty with rows and cols that a 16-bit field of the
\* window size can hold, 0 included, succeeds and leaves the size at
\* (rows, cols, 0, 0), so that the size is that of the last call; a call on a
\* closed descriptor fails with the ioctl error and changes no size.
C12_Claim ==
    /\ (/\ applied.result # "none"
        /\ applied.rows \in 0..(UShortCount - 1) /\ applied.cols \in 0..(UShortCount - 1)
        /\ wdesc[applied.fd] = "pty") =>
           /\ applied.result = "ok"
           /\ winsz[applied.fd] = <<applied.rows, applied.cols, 0, 0>>
    /\ (/\ applied.result = "IOError") => wdesc[applied.fd] # "pty"

(***************************************************************************)
(* Properties of daemonize                                                 *)
(***************************************************************************)

\* 0 for the caller, 1 for a child of the caller, 2 for a child of such a
\* child, -1 for an empty slot.
Gen(p) ==
    IF p = Orig THEN 0
    ELSE IF proc[p].parent = Orig THEN 1
    ELSE IF proc[p].parent \in Procs /\ proc[proc[p].parent].parent = Orig THEN 2
    ELSE -1

DaemonProcs == {p \in Procs : proc[p].ret = Daemon}

ForkFailedAt(k) == \E p \in Procs : proc[p].failedStage = k

OpenRaised == \E p \in Procs : proc[p].pc = "raised"

Quiescent == \A p \in Procs : proc[p].pc \in {"absent", "exited", "returned", "raised"}

\* C2: only the calling process returns Parent (0), only a grandchild returns
\* Daemon (1), the intermediate process never returns to the caller, and no
\* process returns more than once.
C2_DisjointOutcomes ==
    \A p \in Procs :
        /\ proc[p].ret = Parent => p = Orig
        /\ proc[p].ret = Daemon => Gen(p) = 2
        /\ Gen(p) = 1 => proc[p].ret = -1 /\ proc[p].pc # "returned"
        /\ proc[p].nret <= 1
        /\ proc[p].nret = 1 <=> proc[p].ret # -1

C2_Witness ==
    /\ proc[Orig].ret = Parent
    /\ \E c, g \in Procs :
          /\ Gen(c) = 1 /\ proc[c].pc = "exited" /\ proc[c].status = 0
          /\ Gen(g) = 2 /\ proc[g].ret = Daemon

\* C3: the process that returns Daemon has never been a session leader: its
\* session is led by its parent, which called setsid and never returns.
C3_DaemonNeverLeader ==
    \A p \in Procs :
        proc[p].ret = Daemon =>
            /\ ~proc[p].wasLeader
            /\ proc[p].sid # p
            /\ proc[p].sid = proc[p].parent
            /\ proc[proc[p].parent].wasLeader
            /\ proc[proc[p].parent].pc \in {"test2", "exited"}
            /\ proc[proc[p].parent].ret = -1

C3_Witness ==
    \E p \in Procs :
        /\ proc[p].ret = Daemon
        /\ proc[proc[p].parent].wasLeader
        /\ proc[proc[p].parent].pc = "exited"

\* C4 as claimed: in every execution, fork failures included, exactly one
\* process ends up as Daemon and every other one terminates, and whenever
\* the caller returns Parent exactly one Daemon process has been created.
C4_Original ==
    /\ Quiescent =>
          /\ Cardinality(DaemonProcs) = 1
          /\ \A p \in Procs \ DaemonProcs : proc[p].pc \in {"absent", "exited", "returned"}
    /\ proc[Orig].ret = Parent => Cardinality({p \in Procs : Gen(p) = 2}) = 1

\* C4 as amended: at most one process ends up as Daemon; exactly one does
\* when both forks succeed and the stream files open, and every other process
\* then has terminated; no process does when a fork failed; when the caller
\* returns Parent one Daemon process has been created unless the second fork
\* failed, and then none has.
C4_Amended ==
    /\ Cardinality(DaemonProcs) <= 1
    /\ (ForkFailedAt(1) \/ ForkFailedAt(2)) =>
          /\ DaemonProcs = {}
          /\ {p \in Procs : Gen(p) = 2} = {}
    /\ (Quiescent /\ ~ForkFailedAt(1) /\ ~ForkFailedAt(2) /\ ~OpenRaised) =>
          /\ Cardinality(DaemonProcs) = 1
          /\ \A p \in Procs \ DaemonProcs : proc[p].pc \in {"absent", "exited", "returned"}
    /\ proc[Orig].ret = Parent =>
          Cardinality({p \in Procs : Gen(p) = 2}) = (IF ForkFailedAt(2) THEN 0 ELSE 1)

C4_Witness ==
    /\ proc[Orig].ret = Parent
    /\ ForkFailedAt(2)
    /\ Quiescent
    /\ DaemonProcs = {}

\* C5 as claimed: a process in which fork failed reports it, terminates
\* without returning and without forking again, and the exit status of a
\* stage-1 failure differs from the exit status of a stage-2 failure.
C5_Original ==
    \A p \in Procs :
        proc[p].failedStage # 0 =>
            /\ proc[p].ret = -1
            /\ proc[p].nfork = 1
            /\ proc[p].pc \in {"except1", "except2", "exited"}
            /\ (proc[p].pc = "exited" /\ proc[p].failedStage = 2) =>
                   proc[p].status # Fork1ExitStatus

\* C5 as amended: a process in which fork failed reports the stage on the
\* terminal it was started from, terminates without returning and without
\* forking again, and its exit status is 1 at either stage.
C5_Amended ==
    \A p \in Procs :
        proc[p].failedStage # 0 =>
            /\ proc[p].ret = -1 /\ proc[p].nret = 0
            /\ proc[p].nfork = 1
            /\ proc[p].pc \in {IF proc[p].failedStage = 1 THEN "except1" ELSE "except2",
                               "exited"}
            /\ proc[p].pc = "exited" =>
                   /\ proc[p].status = 1
                   /\ [by |-> p,
                       text |-> IF proc[p].failedStage = 1 THEN "fork #1 failed"
                                ELSE "fork #2 failed",
                       to |-> Terminal.path] \in written

C5_Witness ==
    \E p \in Procs :
        proc[p].failedStage = 2 /\ proc[p].pc = "exited" /\ proc[p].status = 1

\* C6: when a process returns Daemon its descriptors 0, 1 and 2 refer to the
\* files named by the stdin, stdout and stderr arguments (/dev/null for an
\* argument that was not passed), input open for reading and not writing,
\* output and error open in append mode.
C6_StreamsRedirected ==
    \A p \in Procs :
        proc[p].ret = Daemon =>
            /\ proc[p].fd[0].path = (IF args.stdin = Omitted THEN "/dev/null" ELSE args.stdin)
            /\ proc[p].fd[1].path = (IF args.stdout = Omitted THEN "/dev/null" ELSE args.stdout)
            /\ proc[p].fd[2].path = (IF args.stderr = Omitted THEN "/dev/null" ELSE args.stderr)
            /\ "read" \in proc[p].fd[0].acc /\ "write" \notin proc[p].fd[0].acc
            /\ "append" \in proc[p].fd[1].acc
            /\ "append" \in proc[p].fd[2].acc

C6_Witness ==
    \E p \in Procs :
        /\ proc[p].ret = Daemon
        /\ args.stdin = Omitted /\ args.stdout = "/tmp/log2" /\ args.stderr = Omitted
        /\ proc[p].fd[0].path = "/dev/null"
        /\ proc[p].fd[1].path = "/tmp/log2"

\* Process p executes os.chdir, os.umask or os.setsid in this step.
Detaches(p) == proc[p].pc \in {"chdir", "umask", "setsid"} /\ proc'[p] # proc[p]

\* The statements of the stream redirection (lines 120-128) and what follows.
Redirecting == {"open_si", "open_so", "open_se", "dup_si", "dup_so", "dup_se",
                "return1", "returned", "raised"}

\* C14 as claimed: the change of directory, the clearing of the mask and the
\* start of the new session are steps of the grandchild, the process the
\* second fork creates.
C14_Original == [][\A p \in Procs : Detaches(p) => Gen(p) = 2]_vars

\* C14 amended: the three steps are taken by the intermediate process,
\* after the first fork and before it forks again; the grandchild takes none
\* of them and inherits their effect, which it has throughout its stream
\* redirection: the root directory, a zero mask and membership, not
\* leadership, of the session the intermediate process started.
C14_Amended ==
    [][\A p \in Procs :
          /\ Detaches(p) => /\ Gen(p) = 1
                            /\ proc[p].nfork = 0
                            /\ \A c \in Procs : proc[c].parent # p
          /\ (Gen(p) = 2 /\ proc'[p].pc \in Redirecting) =>
                /\ proc'[p].cwd = "/"
                /\ proc'[p].umask = 0
                /\ proc'[p].sid = proc'[p].parent
                /\ ~proc'[p].wasLeader
                /\ proc'[proc'[p].parent].wasLeader]_vars

\* A grandchild has returned Daemon from a caller that was not in the root
\* directory.
C14_Witness ==
    \E p \in Procs :
        /\ Gen(p) = 2
        /\ proc[p].ret = Daemon
        /\ proc[p].cwd = "/" /\ proc[p].umask = 0
        /\ proc[Orig].cwd # "/" /\ proc[Orig].umask # 0

\* C15: when the calling process has returned Parent, the process its fork
\* created, the intermediate one, has terminated.
C15_ParentAfterChildExit ==
    proc[Orig].ret = Parent =>
        /\ proc[Orig].pid \in Procs
        /\ Gen(proc[Orig].pid) = 1
        /\ proc[proc[Orig].pid].pc = "exited"
        /\ proc[proc[Orig].pid].status \in {SecondParentExitStatus, Fork2ExitStatus}

\* The caller has returned Parent while the grandchild is still on its way.
C15_Witness ==
    /\ proc[Orig].ret = Parent
    /\ proc[proc[Orig].pid].pc = "exited"
    /\ \E p \in Procs : Gen(p) = 2 /\ proc[p].pc = "open_si"

\* What daemonize changes of a process: working directory, file-creation
\* mask, session, controlling terminal and descriptor table.
Surroundings(q) ==
    [cwd |-> q.cwd, umask |-> q.umask, sid |-> q.sid, ctty |-> q.ctty, fd |-> q.fd]

\* C19: no step changes the working directory, the file-creation mask, the
\* session, the controlling terminal or a descriptor of the calling process,
\* so that it has them as before the call when it returns Parent; a process
\* that changes one of its own is a child or a grandchild.
C19_CallerUnchanged ==
    [][/\ Surroundings(proc'[Orig]) = Surroundings(proc[Orig])
       /\ proc'[Orig].ret = Parent =>
             /\ proc'[Orig].umask = CallerProc(FALSE, "/").umask
             /\ \A n \in {StdinFileno, StdoutFileno, StderrFileno} :
                   proc'[Orig].fd[n] = Terminal
             /\ proc'[Orig].sid = (IF proc'[Orig].wasLeader THEN Orig ELSE 0)
       /\ \A p \in Procs :
             (proc[p].pc # "absent" /\ Surroundings(proc'[p]) # Surroundings(proc[p])) =>
                Gen(p) \in {1, 2}]_vars

\* The caller has returned Parent where it was, and the daemon has returned
\* in the root directory with its streams redirected.
C19_Witness ==
    /\ proc[Orig].ret = Parent
    /\ proc[Orig].cwd = "/home/user"
    /\ proc[Orig].umask # 0
    /\ proc[Orig].fd[StdoutFileno] = Terminal
    /\ \E p \in Procs :
          /\ proc[p].ret = Daemon
          /\ proc[p].cwd = "/" /\ proc[p].umask = 0
          /\ proc[p].sid # proc[Orig].sid
          /\ proc[p].fd[StdoutFileno] # Terminal

====
